---------------------------- MODULE Spec2Model ----------------------------
(***************************************************************************)
(* A model of lib/monorepo.js: the manifest rewriter                       *)
(* removeTomlEditableDependencies and the pipeline entrypoints             *)
(* buildDockerPoetryMonorepo, zipMonoRepoDeps and addDepsToZipFile.        *)
(*                                                                         *)
(* A path is a record [abs, segs]: whether the string starts with "/", and *)
(* its "/"-separated segments.  The empty string is [abs |-> FALSE,        *)
(* segs |-> <<>>].  A manifest file is either absent, unparsable text, or  *)
(* TOML text: the parsed document plus a flag for what parsing loses       *)
(* (comments, layout).                                                     *)
(***************************************************************************)
EXTENDS Integers, Sequences, FiniteSets, TLC

VARIABLES
    pc,         \* run -> where the run is in its promise chain
    enabled,    \* run -> options.dockerBuildPoetryMonorepo
    service,    \* run -> the directory name of serverless.config.servicePath
    srcTree,    \* the monorepo: project directory -> manifest file
    staging,    \* run -> the run's staging directory (bindPath)
    collection, \* service -> contents of <servicePath>/.serverless/requirements
    archive,    \* service -> members of <servicePath>/.serverless/<name>.zip
    started,    \* run -> the steps the run has started, in order
    failed,     \* run -> the step that failed, "none" before
    rewrites,   \* run -> the rewriter calls the run has made, in order
    access,     \* run -> the filesystem paths the run has read or written
    rwPath,     \* rewriter harness: the tomlFilePath argument
    rwFile,     \* rewriter harness: the file at tomlFilePath
    rwOrig,     \* rewriter harness: the file before the first call
    rwCalls,    \* rewriter harness: the projectRootPath of each call so far
    rwHist      \* rewriter harness: the outcome of each call so far

rwVars == <<rwPath, rwFile, rwOrig, rwCalls, rwHist>>

runVars == <<pc, enabled, service, srcTree, staging, collection, archive,
             started, failed, rewrites, access>>

vars == <<runVars, rwVars>>

(***************************************************************************)
(* Bounds of the model.                                                    *)
(***************************************************************************)
MaxPathLen == 2     \* segments in a declared dependency path
MaxCalls == 2       \* rewriter calls on one manifest in the harness
NumRuns == 2        \* pipeline runs that interleave

(***************************************************************************)
(* Paths.                                                                  *)
(***************************************************************************)
Path(a, s) == [abs |-> a, segs |-> s]

EmptyString == Path(FALSE, <<>>)

\* An optional argument that was not passed (undefined).
Undefined == [kind |-> "undefined"]

\* The number of characters of the string a path stands for.
RECURSIVE SegChars(_)
SegChars(s) == IF s = <<>> THEN 0 ELSE Len(Head(s)) + SegChars(Tail(s))

StrLength(p) ==
    (IF p.abs THEN 1 ELSE 0) + SegChars(p.segs)
        + (IF Len(p.segs) > 1 THEN Len(p.segs) - 1 ELSE 0)

\* The segments that hold the two characters "..": the parent-directory
\* segment itself and a name with two consecutive dots inside it.
DotDotNames == {"..", "a..b"}

\* str.indexOf('..') > -1.  "/" never is part of a match, so the substring
\* lies inside one segment.
IndexOfDotDot(p) == \E i \in 1..Len(p.segs) : p.segs[i] \in DotDotNames

\* Whether a path has a parent-directory segment.
HasParentSegment(p) == \E i \in 1..Len(p.segs) : p.segs[i] = ".."

\* posix path.normalize on segments: "." is dropped, ".." removes the
\* segment before it, is dropped at the root of an absolute path and is
\* kept at the front of a relative one.
RECURSIVE NormalizeSegs(_, _, _)
NormalizeSegs(abs, done, rest) ==
    IF rest = <<>> THEN done
    ELSE LET s == Head(rest) IN
         IF s = "." THEN NormalizeSegs(abs, done, Tail(rest))
         ELSE IF s = ".." THEN
              IF done # <<>> /\ done[Len(done)] # ".."
              THEN NormalizeSegs(abs, SubSeq(done, 1, Len(done) - 1), Tail(rest))
              ELSE IF abs THEN NormalizeSegs(abs, done, Tail(rest))
              ELSE NormalizeSegs(abs, Append(done, ".."), Tail(rest))
         ELSE NormalizeSegs(abs, Append(done, s), Tail(rest))

\* path.normalize: a relative path that normalizes to nothing is ".".
Normalize(p) ==
    LET n == NormalizeSegs(p.abs, <<>>, p.segs) IN
    IF n = <<>> /\ ~p.abs THEN Path(FALSE, <<".">>) ELSE Path(p.abs, n)

\* path.join(a, b): empty arguments are skipped, the rest joined with "/"
\* and normalized; the result is absolute when the first non-empty argument
\* is.
PathJoin(a, b) ==
    IF a = EmptyString THEN Normalize(b)
    ELSE IF b = EmptyString THEN Normalize(a)
    ELSE Normalize(Path(a.abs, a.segs \o b.segs))

\* The least offset at which pat occurs in str, 0 when it does not.  The
\* pattern is an absolute path here (the staging root): its leading "/" is
\* the separator that every segment of an absolute string has before it.
FirstOccurrence(str, pat) ==
    LET n == Len(pat.segs)
        hits == {i \in 1..(Len(str.segs) - n + 1) :
                    str.abs /\ SubSeq(str.segs, i, i + n - 1) = pat.segs}
    IN IF hits = {} THEN 0 ELSE CHOOSE i \in hits : \A j \in hits : i <= j

\* str.replace(pat, by) with a string pattern and an absolute replacement:
\* the first occurrence only.
StringReplace(str, pat, by) ==
    LET i == FirstOccurrence(str, pat)
        n == Len(pat.segs)
    IN IF i = 0 THEN str
       ELSE Path(TRUE, SubSeq(str.segs, 1, i - 1) \o by.segs
                         \o SubSeq(str.segs, i + n, Len(str.segs)))

\* A dockerModulePath that keeps the manifest's file name.
StripLastSegmentWrong(p) == p

\* p.split('/').slice(0, -1).join('/'): the path without its last segment.
\* "/x" gives the empty string.
StripLastSegment(p) ==
    IF p.segs = <<>> THEN EmptyString
    ELSE IF Len(p.segs) = 1 THEN EmptyString
    ELSE Path(p.abs, SubSeq(p.segs, 1, Len(p.segs) - 1))

\* The mount point of the staging directory inside the container.
VarTask == Path(TRUE, <<"var", "task">>)

(***************************************************************************)
(* Manifests.  A dependency is a version string, a table (with a develop   *)
(* flag "true", "false" or "absent", an optional path and one more field   *)
(* the rewriter knows nothing of) or an array of tables (poetry's          *)
(* multiple-constraints form).                                             *)
(***************************************************************************)
NoValue == [kind |-> "absent"]

VersionString == [kind |-> "string", v |-> "^1.0"]

Table(develop, path) ==
    [kind |-> "object", develop |-> develop, path |-> path, python |-> "^3.9"]

ArrayOf(items) == [kind |-> "array", items |-> items]

\* A parsed manifest: tool.poetry.dependencies (NoValue when the table is
\* missing), tool.poetry.dev-dependencies and the rest of the document.
Document(deps, dev) ==
    [dependencies |-> deps, devDependencies |-> dev, name |-> "project"]

AbsentFile == [kind |-> "absent"]
InvalidFile == [kind |-> "invalid"]
TomlFile(comments, doc) == [kind |-> "toml", comments |-> comments, doc |-> doc]

\* TOML.stringify: the document in the library's own layout, no comments.
TOMLstringify(doc) == TomlFile(FALSE, doc)

\* typeof dependency === 'object': tables and arrays.
TypeofObject(dependency) == dependency.kind \in {"object", "array"}

\* dependency.develop and dependency.path; an array has neither property.
DevelopOf(dependency) ==
    IF dependency.kind = "object" THEN dependency.develop ELSE "absent"

PathOf(dependency) ==
    IF dependency.kind = "object" THEN dependency.path ELSE NoValue

\* Lines 239-243: the host-side staging root in the manifest's path becomes
\* /var/task, the file name is dropped and the declared path is joined on.
finalPath(tomlFilePath, projectRootPath, depPath) ==
    LET dockerTomlPath == StringReplace(tomlFilePath, projectRootPath, VarTask)
        dockerModulePath == StripLastSegment(dockerTomlPath)
    IN PathJoin(dockerModulePath, depPath)

\* Line 238: the condition of the path rewrite.
RewritesPath(projectRootPath, dependency) ==
    /\ projectRootPath # Undefined
    /\ StrLength(projectRootPath) > 0
    /\ PathOf(dependency) # NoValue
    /\ IndexOfDotDot(PathOf(dependency))

\* Lines 205-208: a truthy develop flag is deleted.
DeleteDevelop(dependency) ==
    IF DevelopOf(dependency) = "true"
    THEN [dependency EXCEPT !.develop = "absent"]
    ELSE dependency

\* Lines 201-247: the body of the forEach for one dependency.
RewriteDependency(tomlFilePath, projectRootPath, dependency) ==
    IF ~TypeofObject(dependency) THEN dependency
    ELSE LET d == DeleteDevelop(dependency) IN
         IF RewritesPath(projectRootPath, d)
         THEN [d EXCEPT !.path = finalPath(tomlFilePath, projectRootPath, d.path)]
         ELSE d

\* Line 250 deletes dev-dependencies from the parsed document.
DeleteDevDependencies(doc) == [doc EXCEPT !.devDependencies = NoValue]

\* Lines 195-250 on a parsed document that has a dependencies table.
RewriteDocument(tomlFilePath, projectRootPath, doc) ==
    DeleteDevDependencies(
        [doc EXCEPT !.dependencies =
            [k \in DOMAIN doc.dependencies |->
                RewriteDependency(tomlFilePath, projectRootPath,
                                  doc.dependencies[k])]])

\* A guard that lets a path of length 1 through.
NoManifestPathShort(tomlFilePath) ==
    tomlFilePath = Undefined \/ StrLength(tomlFilePath) < 1

\* Line 185: !tomlFilePath || tomlFilePath.length < 2.
NoManifestPath(tomlFilePath) ==
    tomlFilePath = Undefined \/ StrLength(tomlFilePath) < 2

\* Lines 190-198: readFileSync throws when there is no file to read,
\* TOML.parse throws on text that is not TOML, and Object.keys throws when
\* tool.poetry.dependencies is undefined.
CannotComplete(file) ==
    file.kind # "toml" \/ file.doc.dependencies = NoValue

\* A rewriter that removes the file before it reads it.
removeTomlEditableDependenciesRemoveFirst(tomlFilePath, projectRootPath, file) ==
    IF NoManifestPath(tomlFilePath)
    THEN [outcome |-> "skipped", file |-> file]
    ELSE IF CannotComplete(file)
    THEN [outcome |-> "threw", file |-> AbsentFile]
    ELSE [outcome |-> "wrote",
          file |-> TOMLstringify(
                      RewriteDocument(tomlFilePath, projectRootPath, file.doc))]

\* removeTomlEditableDependencies(tomlFilePath, projectRootPath) on the file
\* at tomlFilePath: what it did ("skipped" by the guard of line 185, "threw"
\* at lines 190-198, "wrote" at lines 252-253) and the file afterwards.
removeTomlEditableDependencies(tomlFilePath, projectRootPath, file) ==
    IF NoManifestPath(tomlFilePath)
    THEN [outcome |-> "skipped", file |-> file]
    ELSE IF CannotComplete(file)
    THEN [outcome |-> "threw", file |-> file]
    ELSE [outcome |-> "wrote",
          file |-> TOMLstringify(
                      RewriteDocument(tomlFilePath, projectRootPath, file.doc))]


(***************************************************************************)
(* The pipeline.  NumRuns runs of the plugin interleave; each is for one   *)
(* service of the same monorepo /repo.  An external process (rsync, find,  *)
(* docker, zip) acts when it completes: its effect, the exec callback and  *)
(* the then-handler the callback releases are one step, since the handler  *)
(* runs before any other run's callback.                                   *)
(***************************************************************************)
Runs == 1..NumRuns

Services == {"api", "web"}

ManifestName == "pyproject.toml"

ManifestAt(root, dir) == Path(root.abs, root.segs \o dir \o <<ManifestName>>)

\* The directory of a manifest below the staging root.
DirOf(root, manifestPath) ==
    SubSeq(manifestPath.segs, Len(root.segs) + 1, Len(manifestPath.segs) - 1)

IsPrefix(p, q) ==
    /\ p.abs = q.abs
    /\ Len(p.segs) <= Len(q.segs)
    /\ SubSeq(q.segs, 1, Len(p.segs)) = p.segs

\* this.serverless.config.servicePath of a service, and line 33.
servicePath(s) == Path(TRUE, <<"repo", s>>)

serverlessMonorepoPath(s) ==
    Path(TRUE, SubSeq(servicePath(s).segs, 1, Len(servicePath(s).segs) - 1))

\* Lines 44-45: path.basename(servicePath).
apiDirName(s) == servicePath(s).segs[Len(servicePath(s).segs)]

\* getRequirementsWorkingPath(subfolder, ..., {useStaticCache: true}) of
\* ./shared: a directory of the user's cache named after subfolder.
getRequirementsWorkingPath(subfolder) == Path(TRUE, <<"cache", subfolder>>)

\* v4() of the uuid package: a name no other call returns.
v4(r) == ToString(r)

\* Line 34: the staging directory of a run (dockerPathForWin changes
\* nothing off Windows).
bindPath(r) == getRequirementsWorkingPath(v4(r))

\* A collection directory computed from the monorepo's path.
serverlessRequirementsZipPathWrong(s) ==
    Path(TRUE, serverlessMonorepoPath(s).segs \o <<".serverless", "requirements">>)

\* Lines 35 and 141: <servicePath>/.serverless/requirements.
serverlessRequirementsZipPath(s) ==
    Path(TRUE, servicePath(s).segs \o <<".serverless", "requirements">>)

\* Lines 142-145: <servicePath>/.serverless/<apiDirName>.zip.
archivePath(s) ==
    Path(TRUE, servicePath(s).segs \o <<".serverless", apiDirName(s) \o ".zip">>)

\* Line 46: the root manifest of the run's service in the staging directory.
tomlFilePath(r, s) == ManifestAt(bindPath(r), <<apiDirName(s)>>)

\* The project directories of the monorepo, in the order find lists them.
ProjectDirs == <<<<"api">>, <<"libs", "shared">>, <<"web">>>>

ProjectDirSet == {ProjectDirs[i] : i \in 1..Len(ProjectDirs)}

UpTo(path) == Table("true", Path(FALSE, path))

WithShared(dep) == Document([requests |-> VersionString, shared |-> dep],
                            [pytest |-> VersionString])

\* The manifests a service directory may hold.
ServiceManifests ==
    {AbsentFile,
     TomlFile(TRUE, WithShared(UpTo(<<"..", "libs", "shared">>)))}

\* The manifests the shared library may hold.
LibraryManifests ==
    {AbsentFile,
     InvalidFile,
     TomlFile(TRUE, Document(NoValue, NoValue)),
     TomlFile(TRUE, WithShared(UpTo(<<"..", "other">>))),
     TomlFile(TRUE, WithShared(UpTo(<<"..", "..", "..", "out">>)))}

SourceTrees ==
    {[d \in ProjectDirSet |->
        IF d = <<"libs", "shared">> THEN lib
        ELSE IF d = <<"api">> THEN svc
        ELSE TomlFile(TRUE, WithShared(UpTo(<<"..", "libs", "shared">>)))] :
     svc \in ServiceManifests, lib \in LibraryManifests}

NoFiles == [d \in ProjectDirSet |-> AbsentFile]

\* The names of the monorepo's other entries, at any depth: sources, the
\* directories the tools leave behind, and the lock file.
SourceEntries ==
    {"handler.py", "__pycache__", ".serverless", "node_modules", ".venv",
     "poetry.lock", ".git"}

\* An rsync that excludes nothing.
RsyncExcludesNone == {}

\* Line 57: the --exclude options of the staging rsync; a pattern without
\* a slash matches the name at any depth.
RsyncExcludes == {"node_modules", ".venv", "poetry.lock", ".git"}

\* rsync -rav <source>/ <dest> --exclude ...: every entry of the source
\* that matches no exclude pattern is copied; without --delete, what the
\* destination holds besides stays.
Rsync(dest, source, excludes) == dest \cup (source \ excludes)

\* A staging directory that does not exist, one just created or emptied,
\* and one that is there with content before the run (mkdirpSync of line 36
\* accepts a directory that exists).
NoDirectory ==
    [exists |-> FALSE, files |-> NoFiles, sitePackages |-> {}, entries |-> {}]
EmptyDirectory ==
    [exists |-> TRUE, files |-> NoFiles, sitePackages |-> {}, entries |-> {}]
LeftoverDirectory ==
    [exists |-> TRUE,
     files |-> [d \in ProjectDirSet |->
                    IF d = <<"web">> THEN InvalidFile ELSE AbsentFile],
     sitePackages |-> {"leftover"}, entries |-> {"leftover", ".git"}]

\* What poetry install leaves in .venv/lib/python3.9/site-packages, and
\* the names the collecting rsync of line 112 excludes.
InstalledPackages == {"requests", "shared", "pip", "setuptools"}

\* What a build may install: poetry.lock is not part of the mirror, so
\* poetry resolves the dependencies anew in each run, with or without a
\* further package, which brings a directory .libs with it.
BuildOutputs == {InstalledPackages, InstalledPackages \cup {"urllib3", ".libs"}}

\* The entry names that begin with a dot.
DotNames == {".libs"}

\* ./* as the shell of exec expands it in the collection directory: every
\* entry whose name does not begin with a dot.
GlobStar(entries) == entries \ DotNames

\* An emptying that leaves the directory as it is.
emptyDirSyncKeeps(contents) == contents

\* Line 40: fsExtra.emptyDirSync(serverlessRequirementsZipPath).
emptyDirSync(contents) == {}

CollectExcludes == {"pip", "setuptools", "wheel", "__pycache__", "pkg_resources"}

NoArchive == {"<no archive>"}

\* A callback that ignores err.
ExecCallbackAlwaysResolves(err) == "resolve"

\* Lines 58-63 (and 71-76, 97-103, 113-118): the exec callback rejects on
\* an error and resolves otherwise.
ExecCallback(err) == IF err THEN "reject" ELSE "resolve"

\* One rewriter call of a run: the manifest's directory, the
\* projectRootPath argument, whether the call came after the locate step,
\* and what the call did.
RewriteRecord(dir, root, located, outcome) ==
    [dir |-> dir, root |-> root, located |-> located, outcome |-> outcome]

\* Line 81: tomlFilePaths.split('\n'), the paths find printed, each ended
\* by a newline: the located manifests and one empty string.
SplitLines(paths) == paths \o <<EmptyString>>

\* A find that lists the shared library's manifest only.
LocatedLibrariesOnly(files, i) ==
    IF files[<<"libs", "shared">>] = AbsentFile THEN <<>>
    ELSE <<<<"libs", "shared">>>>

\* find <bindPath> -name "pyproject.toml": the manifests in the staging
\* directory, as directories below it, in find's order.
RECURSIVE Located(_, _)
Located(files, i) ==
    IF i > Len(ProjectDirs) THEN <<>>
    ELSE (IF files[ProjectDirs[i]] = AbsentFile THEN <<>> ELSE <<ProjectDirs[i]>>)
            \o Located(files, i + 1)

\* A forEach that passes no projectRootPath.
LocatedRootUndefined(r) == Undefined

\* The projectRootPath that the forEach of lines 81-83 passes.
LocatedRoot(r) == bindPath(r)

\* The lines of find's output for the located directories.
Stdout(r, dirs) == [i \in 1..Len(dirs) |-> ManifestAt(bindPath(r), dirs[i])]

\* Lines 81-83: the rewriter on each element of the split output in turn,
\* until one call throws.  acc is [files, log, threw].
RECURSIVE RewriteLocated(_, _, _)
RewriteLocated(r, paths, acc) ==
    IF paths = <<>> \/ acc.threw THEN acc
    ELSE LET p == Head(paths)
             d == IF p = EmptyString THEN <<>> ELSE DirOf(bindPath(r), p)
             file == IF d \in ProjectDirSet THEN acc.files[d] ELSE AbsentFile
             res == removeTomlEditableDependencies(p, LocatedRoot(r), file)
         IN RewriteLocated(r, Tail(paths),
                [files |-> IF d \in ProjectDirSet
                           THEN [acc.files EXCEPT ![d] = res.file]
                           ELSE acc.files,
                 log |-> Append(acc.log,
                            RewriteRecord(d, LocatedRoot(r), TRUE, res.outcome)),
                 threw |-> res.outcome = "threw"])

\* The gate is on or off in the first run and on in the others, and the
\* staging path of the first run may be in use already (the runs are alike
\* but for the name of their staging directory).
RunsInit ==
    /\ pc = [r \in Runs |-> "start"]
    /\ enabled \in {e \in [Runs -> BOOLEAN] : \A r \in Runs : r > 1 => e[r]}
    /\ service \in [Runs -> Services]
    /\ srcTree \in SourceTrees
    /\ staging \in {st \in [Runs -> {NoDirectory, LeftoverDirectory}] :
                        \A r \in Runs : r > 1 => st[r] = NoDirectory}
    /\ collection = [s \in Services |-> IF s = "api" THEN {"stale"} ELSE {}]
    /\ archive = [s \in Services |-> IF s = "api" THEN {"old"} ELSE NoArchive]
    /\ started = [r \in Runs |-> <<>>]
    /\ failed = [r \in Runs |-> "none"]
    /\ rewrites = [r \in Runs |-> <<>>]
    /\ access = [r \in Runs |-> {}]

\* The rewriter harness at rest.
RewriterIdle ==
    /\ rwPath = Undefined
    /\ rwFile = AbsentFile
    /\ rwOrig = AbsentFile
    /\ rwCalls = <<>>
    /\ rwHist = <<>>

Init == RunsInit /\ RewriterIdle

\* A gate that is always open.
dockerBuildPoetryMonorepoAlways(r) == TRUE

\* Lines 28, 137 and 162: this.options.dockerBuildPoetryMonorepo, the gate
\* each entrypoint tests before anything else.
dockerBuildPoetryMonorepo(r) == enabled[r]

Step(r, name) == started' = [started EXCEPT ![r] = Append(@, name)]

Steps(r, names) == started' = [started EXCEPT ![r] = @ \o names]

Reject(r) == pc' = [pc EXCEPT ![r] = "rejected"]

\* What went wrong in a step, if anything: the external process of the step
\* ended with an error, or the rewriter threw in the then-handler.
Failure(r, err, name, threw) ==
    failed' = [failed EXCEPT ![r] =
                IF err THEN name ELSE IF threw THEN "rewrite" ELSE @]

\* Lines 27-57: the gate, then the staging and collection directories are
\* created and emptied and the staging rsync is started.
buildDockerPoetryMonorepo(r) ==
    /\ pc[r] = "start"
    /\ IF ~dockerBuildPoetryMonorepo(r)
       THEN /\ pc' = [pc EXCEPT ![r] = "noop"]
            /\ UNCHANGED <<staging, collection, started, access>>
       ELSE /\ pc' = [pc EXCEPT ![r] = "rsync"]
            /\ staging' = [staging EXCEPT ![r] = EmptyDirectory]
            /\ collection' = [collection EXCEPT ![service[r]] = emptyDirSync(@)]
            /\ Step(r, "stage")
            /\ access' = [access EXCEPT ![r] = @ \cup
                    {[path |-> bindPath(r), mode |-> "write"],
                     [path |-> serverlessRequirementsZipPath(service[r]),
                      mode |-> "write"],
                     [path |-> serverlessMonorepoPath(service[r]),
                      mode |-> "read"]}]
    /\ UNCHANGED <<enabled, service, srcTree, archive, failed, rewrites, rwVars>>

\* Lines 57-78: the staging rsync ends.  On success the staging directory
\* mirrors the monorepo, the root manifest is rewritten without a
\* projectRootPath and find is started.
StagingCopyDone(r, err) ==
    /\ pc[r] = "rsync"
    /\ IF ExecCallback(err) = "reject"
       THEN /\ Reject(r)
            /\ Failure(r, err, "stage", FALSE)
            /\ UNCHANGED <<staging, started, rewrites, access>>
       ELSE LET root == <<apiDirName(service[r])>>
                res == removeTomlEditableDependencies(
                           tomlFilePath(r, service[r]), Undefined, srcTree[root])
            IN /\ staging' = [staging EXCEPT
                    ![r].files = [srcTree EXCEPT ![root] = res.file],
                    ![r].entries = Rsync(@, SourceEntries, RsyncExcludes)]
               /\ rewrites' = [rewrites EXCEPT ![r] =
                    Append(@, RewriteRecord(root, Undefined, FALSE, res.outcome))]
               /\ Failure(r, err, "stage", res.outcome = "threw")
               /\ UNCHANGED access
               /\ IF res.outcome = "threw"
                  THEN /\ Reject(r)
                       /\ Step(r, "rewrite")
                  ELSE /\ pc' = [pc EXCEPT ![r] = "find"]
                       /\ Steps(r, <<"rewrite", "locate">>)
    /\ UNCHANGED <<enabled, service, srcTree, collection, archive, rwVars>>

\* A handler that takes an empty output of find for an error.
RewriteOutputOrThrow(r, tomlFilePaths, files) ==
    LET none == [files |-> files, log |-> <<>>, threw |-> FALSE]
    IN IF tomlFilePaths = <<>> THEN [none EXCEPT !.threw = TRUE]
       ELSE RewriteLocated(r, SplitLines(tomlFilePaths), none)

\* Lines 79-84: with an output that is not empty, the rewriter on each
\* element of its split; with an empty output, nothing.
RewriteOutput(r, tomlFilePaths, files) ==
    LET none == [files |-> files, log |-> <<>>, threw |-> FALSE]
    IN IF tomlFilePaths = <<>> THEN none
       ELSE RewriteLocated(r, SplitLines(tomlFilePaths), none)

\* Lines 70-96: find ends, having listed the manifests in dirs.  On success
\* every listed manifest is rewritten with the staging directory as
\* projectRootPath and docker is started.
LocateHandler(r, err, dirs) ==
    /\ pc[r] = "find"
    /\ IF ExecCallback(err) = "reject"
       THEN /\ Reject(r)
            /\ Failure(r, err, "locate", FALSE)
            /\ UNCHANGED <<staging, started, rewrites>>
       ELSE LET tomlFilePaths == Stdout(r, dirs)
                acc == RewriteOutput(r, tomlFilePaths, staging[r].files)
            IN /\ staging' = [staging EXCEPT ![r].files = acc.files]
               /\ rewrites' = [rewrites EXCEPT ![r] = @ \o acc.log]
               /\ Failure(r, err, "locate", acc.threw)
               /\ IF acc.threw
                  THEN /\ Reject(r)
                       /\ Step(r, "rewrite")
                  ELSE /\ pc' = [pc EXCEPT ![r] = "docker"]
                       /\ Steps(r, IF dirs = <<>> THEN <<"build">>
                                   ELSE <<"rewrite", "build">>)
    /\ UNCHANGED <<enabled, service, srcTree, collection, archive, access, rwVars>>

\* find lists every manifest in the staging directory.
LocateDone(r, err) == LocateHandler(r, err, Located(staging[r].files, 1))

\* Lines 96-112: docker run ... poetry install --no-dev ends.  On success
\* the packages are in the staging directory and the collecting rsync is
\* started.
BuildDone(r, err) ==
    /\ pc[r] = "docker"
    /\ IF ExecCallback(err) = "reject"
       THEN /\ Reject(r)
            /\ UNCHANGED <<staging, started>>
       ELSE /\ pc' = [pc EXCEPT ![r] = "collect"]
            /\ \E packages \in BuildOutputs :
                    staging' = [staging EXCEPT ![r].sitePackages = packages]
            /\ Step(r, "collect")
    /\ Failure(r, err, "build", FALSE)
    /\ UNCHANGED <<enabled, service, srcTree, collection, archive, rewrites,
                   access, rwVars>>

\* Lines 112-127: the collecting rsync ends.  On success the packages it
\* does not exclude are in the collection directory, and the staging
\* directory is emptied and removed.
CollectDone(r, err) ==
    /\ pc[r] = "collect"
    /\ IF ExecCallback(err) = "reject"
       THEN /\ Reject(r)
            /\ UNCHANGED <<staging, collection, started>>
       ELSE /\ pc' = [pc EXCEPT ![r] = "resolved"]
            /\ collection' = [collection EXCEPT ![service[r]] =
                    Rsync(@, staging[r].sitePackages, CollectExcludes)]
            /\ staging' = [staging EXCEPT ![r] = NoDirectory]
            /\ Step(r, "cleanup")
    /\ Failure(r, err, "collect", FALSE)
    /\ UNCHANGED <<enabled, service, srcTree, archive, rewrites, access, rwVars>>

\* A removal that leaves the archive where it is.
rmSyncKeeps(members) == members

\* Line 145: fsExtra.rmSync(<archive>, {force: true}).
rmSync(members) == NoArchive

\* Lines 136-150: the host's packaging hook, after the build hook has
\* returned.  The gate, then the archive is removed and zip -r is started.
zipMonoRepoDeps(r) ==
    /\ pc[r] \in {"noop", "resolved"}
    /\ IF ~dockerBuildPoetryMonorepo(r)
       THEN /\ pc' = [pc EXCEPT ![r] = "noop-zip"]
            /\ UNCHANGED <<archive, access>>
       ELSE /\ pc' = [pc EXCEPT ![r] = "zip"]
            /\ archive' = [archive EXCEPT ![service[r]] = rmSync(@)]
            /\ access' = [access EXCEPT ![r] = @ \cup
                    {[path |-> archivePath(service[r]), mode |-> "write"],
                     [path |-> serverlessRequirementsZipPath(service[r]),
                      mode |-> "read"]}]
    /\ UNCHANGED <<enabled, service, srcTree, staging, collection, started,
                   failed, rewrites, rwVars>>

\* zip -r ../<name>.zip <entries>: the entries, by their names in the
\* collection directory, are added to the archive at that path, which zip
\* creates when there is none.
ZipEntries(members, entries) ==
    (IF members = NoArchive THEN {} ELSE members) \cup entries

\* Lines 150-157: zip -r ../<name>.zip ./* ends.  With nothing for ./* to
\* match, zip exits with an error.
ZipDone(r, err) ==
    /\ pc[r] = "zip"
    /\ IF ExecCallback(err \/ GlobStar(collection[service[r]]) = {}) = "reject"
       THEN /\ pc' = [pc EXCEPT ![r] = "zip-rejected"]
            /\ UNCHANGED archive
       ELSE /\ pc' = [pc EXCEPT ![r] = "zipped"]
            /\ archive' = [archive EXCEPT ![service[r]] =
                                ZipEntries(@, GlobStar(collection[service[r]]))]
    /\ UNCHANGED <<enabled, service, srcTree, staging, collection, started,
                   failed, rewrites, access, rwVars>>

\* A later hook that removes the archive as the packaging hook does.
addDepsToZipFileRemoves(r) ==
    /\ pc[r] \in {"noop-zip", "zipped"}
    /\ IF ~dockerBuildPoetryMonorepo(r)
       THEN /\ pc' = [pc EXCEPT ![r] = "noop-add"]
            /\ UNCHANGED <<archive, access>>
       ELSE /\ pc' = [pc EXCEPT ![r] = "zip-update"]
            /\ archive' = [archive EXCEPT ![service[r]] = rmSync(@)]
            /\ access' = [access EXCEPT ![r] = @ \cup
                    {[path |-> archivePath(service[r]), mode |-> "write"],
                     [path |-> serverlessRequirementsZipPath(service[r]),
                      mode |-> "read"]}]
    /\ UNCHANGED <<enabled, service, srcTree, staging, collection,
                   started, failed, rewrites, rwVars>>

\* Lines 161-173: the host's later hook.  The gate, then zip -ur is started
\* on the archive as it is.
addDepsToZipFile(r) ==
    /\ pc[r] \in {"noop-zip", "zipped"}
    /\ IF ~dockerBuildPoetryMonorepo(r)
       THEN /\ pc' = [pc EXCEPT ![r] = "noop-add"]
            /\ UNCHANGED access
       ELSE /\ pc' = [pc EXCEPT ![r] = "zip-update"]
            /\ access' = [access EXCEPT ![r] = @ \cup
                    {[path |-> archivePath(service[r]), mode |-> "write"],
                     [path |-> serverlessRequirementsZipPath(service[r]),
                      mode |-> "read"]}]
    /\ UNCHANGED <<enabled, service, srcTree, staging, collection, archive,
                   started, failed, rewrites, rwVars>>

\* Lines 173-180: zip -ur ends.  zip exits with an error when ./* matches
\* nothing, and also when no entry of the archive needs an update.
UpdateDone(r, err) ==
    /\ pc[r] = "zip-update"
    /\ LET entries == GlobStar(collection[service[r]])
           nothing == entries = {} \/ entries \subseteq archive[service[r]]
       IN IF ExecCallback(err \/ nothing) = "reject"
          THEN /\ pc' = [pc EXCEPT ![r] = "add-rejected"]
               /\ UNCHANGED archive
          ELSE /\ pc' = [pc EXCEPT ![r] = "added"]
               /\ archive' = [archive EXCEPT ![service[r]] = ZipEntries(@, entries)]
    /\ UNCHANGED <<enabled, service, srcTree, staging, collection, started,
                   failed, rewrites, access, rwVars>>

Next ==
    \E r \in Runs :
        \/ buildDockerPoetryMonorepo(r)
        \/ \E err \in BOOLEAN : StagingCopyDone(r, err)
        \/ \E err \in BOOLEAN : LocateDone(r, err)
        \/ \E err \in BOOLEAN : BuildDone(r, err)
        \/ \E err \in BOOLEAN : CollectDone(r, err)
        \/ zipMonoRepoDeps(r)
        \/ \E err \in BOOLEAN : ZipDone(r, err)
        \/ addDepsToZipFile(r)
        \/ \E err \in BOOLEAN : UpdateDone(r, err)

Spec == Init /\ [][Next]_vars

(***************************************************************************)
(* The pipeline with the output of find left open: find is a process of    *)
(* the host, and the handler of lines 79-84 takes what it printed as it    *)
(* comes, the list of the staged manifests or nothing at all.              *)
(***************************************************************************)
FindOutputs(r) == {<<>>, Located(staging[r].files, 1)}

LocateDoneOpen(r, err) ==
    \E dirs \in FindOutputs(r) : LocateHandler(r, err, dirs)

OpenNext ==
    \E r \in Runs :
        \/ buildDockerPoetryMonorepo(r)
        \/ \E err \in BOOLEAN : StagingCopyDone(r, err)
        \/ \E err \in BOOLEAN : LocateDoneOpen(r, err)
        \/ \E err \in BOOLEAN : BuildDone(r, err)
        \/ \E err \in BOOLEAN : CollectDone(r, err)
        \/ zipMonoRepoDeps(r)
        \/ \E err \in BOOLEAN : ZipDone(r, err)
        \/ addDepsToZipFile(r)
        \/ \E err \in BOOLEAN : UpdateDone(r, err)

\* Every run has its gate on and a staging path that is not in use; every
\* service has a manifest, and the shared library has one that is rewritten
\* or one that cannot be parsed.
OpenInit ==
    /\ Init
    /\ \A r \in Runs : enabled[r] /\ staging[r] = NoDirectory
    /\ srcTree[<<"api">>] # AbsentFile
    /\ srcTree[<<"libs", "shared">>]
            \in {InvalidFile, TomlFile(TRUE, WithShared(UpTo(<<"..", "other">>)))}

OpenSpec == OpenInit /\ [][OpenNext]_vars

(***************************************************************************)
(* The rewriter on its own: a manifest file and a manifest path are drawn  *)
(* from bounded sets, and the rewriter is called on them up to MaxCalls    *)
(* times, each time with or without a projectRootPath.                     *)
(***************************************************************************)
StagingRoot == Path(TRUE, <<"host", "stage">>)

\* Project directories below the staging root.
ManifestDirs == {<<>>, <<"api">>, <<"libs", "shared">>, <<"host", "stage">>}

PathSegs == {"..", ".", "lib", "a..b"}

RECURSIVE SeqsUpTo(_, _)
SeqsUpTo(S, n) ==
    IF n = 0 THEN {<<>>}
    ELSE LET shorter == SeqsUpTo(S, n - 1) IN
         shorter \cup {Append(q, x) : q \in shorter, x \in S}

DepPaths ==
    {Path(a, q) : a \in BOOLEAN, q \in SeqsUpTo(PathSegs, MaxPathLen) \ {<<>>}}

Tables ==
    {Table(dv, p) : dv \in {"absent", "true", "false"},
                    p \in DepPaths \cup {NoValue}}

Arrays ==
    {ArrayOf(<<t>>) :
        t \in {Table("true", Path(FALSE, <<"..", "lib">>)),
               Table("absent", NoValue)}}

DepValues == {VersionString} \cup Tables \cup Arrays

Documents ==
    {Document(deps, dev) :
        deps \in {NoValue}
                 \cup {[requests |-> VersionString, shared |-> v] : v \in DepValues},
        dev \in {NoValue, [pytest |-> VersionString]}}

Files ==
    {AbsentFile, InvalidFile}
        \cup {TomlFile(c, doc) : c \in BOOLEAN, doc \in Documents}

RewriterPaths ==
    {Undefined, EmptyString, Path(FALSE, <<".">>)}
        \cup {ManifestAt(StagingRoot, d) : d \in ManifestDirs}

RewriterRoots == {Undefined, EmptyString, StagingRoot}

\* The pipeline at rest: no run is ever started.
RunsIdle ==
    /\ pc = [r \in Runs |-> "start"]
    /\ enabled = [r \in Runs |-> FALSE]
    /\ service = [r \in Runs |-> "api"]
    /\ srcTree = NoFiles
    /\ staging = [r \in Runs |-> NoDirectory]
    /\ collection = [s \in Services |-> {}]
    /\ archive = [s \in Services |-> NoArchive]
    /\ started = [r \in Runs |-> <<>>]
    /\ failed = [r \in Runs |-> "none"]
    /\ rewrites = [r \in Runs |-> <<>>]
    /\ access = [r \in Runs |-> {}]

RewriterInit ==
    /\ RunsIdle
    /\ rwPath \in RewriterPaths
    /\ rwFile \in Files
    /\ rwOrig = rwFile
    /\ rwCalls = <<>>
    /\ rwHist = <<>>

\* One call removeTomlEditableDependencies(rwPath, projectRootPath).
RewriterCall(projectRootPath) ==
    /\ Len(rwCalls) < MaxCalls
    /\ LET r == removeTomlEditableDependencies(rwPath, projectRootPath, rwFile)
       IN /\ rwFile' = r.file
          /\ rwHist' = Append(rwHist, r)
    /\ rwCalls' = Append(rwCalls, projectRootPath)
    /\ UNCHANGED <<rwPath, rwOrig, runVars>>

RewriterNext == \E root \in RewriterRoots : RewriterCall(root)

RewriterSpec == RewriterInit /\ [][RewriterNext]_vars

\* The file the i-th call found, and the file it left.
FileBefore(i) == IF i = 1 THEN rwOrig ELSE rwHist[i - 1].file
FileAfter(i) == rwHist[i].file
Wrote(i) == i \in 1..Len(rwHist) /\ rwHist[i].outcome = "wrote"

(***************************************************************************)
(* Claims about the rewriter, checked under RewriterSpec.                  *)
(***************************************************************************)
DepsOf(file) == file.doc.dependencies

IsTable(dep) == dep.kind = "object"

\* A table-valued dependency whose declared path goes upward.
GoesUpward(dep) ==
    IsTable(dep) /\ dep.path # NoValue /\ HasParentSegment(dep.path)

\* A table-valued dependency whose declared path does not go upward.
StaysBelow(dep) ==
    IsTable(dep) /\ dep.path # NoValue /\ ~HasParentSegment(dep.path)

\* Whether a dependency entry still holds develop = true somewhere.
RetainsDevelop(dep) ==
    \/ IsTable(dep) /\ dep.develop = "true"
    \/ dep.kind = "array" /\ \E j \in 1..Len(dep.items) : dep.items[j].develop = "true"

\* C3: a manifest at R/d/pyproject.toml rewritten with projectRootPath = R
\* gets, for every table-valued dependency whose path p has a
\* parent-directory segment, the path normalize(/var/task/d/p): an absolute
\* path without "." and ".." segments; for d = api and p = ../lib it is
\* /var/task/lib.
C3_PathIsNormalizedJoin ==
    \A i \in 1..Len(rwHist) :
        (Wrote(i) /\ rwCalls[i] = StagingRoot) =>
            \A k \in DOMAIN DepsOf(FileBefore(i)) :
                LET dep == DepsOf(FileBefore(i))[k]
                    new == DepsOf(FileAfter(i))[k].path
                IN GoesUpward(dep) =>
                    /\ new = Normalize(Path(TRUE,
                                VarTask.segs \o DirOf(StagingRoot, rwPath)
                                    \o dep.path.segs))
                    /\ new.abs
                    /\ \A j \in 1..Len(new.segs) : new.segs[j] \notin {".", ".."}
                    /\ (/\ rwPath = ManifestAt(StagingRoot, <<"api">>)
                        /\ dep.path = Path(FALSE, <<"..", "lib">>))
                            => new = Path(TRUE, <<"var", "task", "lib">>)

C3_Witness ==
    /\ Wrote(1)
    /\ rwCalls[1] = StagingRoot
    /\ rwPath = ManifestAt(StagingRoot, <<"api">>)
    /\ DepsOf(rwOrig).shared = Table("true", Path(FALSE, <<"..", "lib">>))
    /\ DepsOf(FileAfter(1)).shared.path = Path(TRUE, <<"var", "task", "lib">>)

\* C4: after the rewriter has written a manifest, no entry of its
\* dependencies table holds develop = true, whatever the entry's shape.
C4_NoDevelopLeft ==
    \A i \in 1..Len(rwHist) :
        Wrote(i) =>
            \A k \in DOMAIN DepsOf(FileAfter(i)) :
                ~RetainsDevelop(DepsOf(FileAfter(i))[k])

\* C5: a second call with the same manifest path and the same
\* projectRootPath leaves the manifest the first call wrote; and the
\* pipeline's two calls on the root manifest (without, then with the
\* staging root) leave what one call with the staging root writes.
C5_Idempotent ==
    /\ \A i \in 1..(Len(rwHist) - 1) :
            (Wrote(i) /\ Wrote(i + 1) /\ rwCalls[i] = rwCalls[i + 1]) =>
                FileAfter(i + 1) = FileAfter(i)
    /\ (Len(rwHist) = 2 /\ Wrote(2) /\ rwCalls = <<Undefined, StagingRoot>>) =>
            FileAfter(2) =
                removeTomlEditableDependencies(rwPath, StagingRoot, rwOrig).file

\* C6: the path of a table-valued dependency that has no parent-directory
\* segment is the same after the rewrite as before, with or without a
\* projectRootPath.
C6_PathBelowUntouched ==
    \A i \in 1..Len(rwHist) :
        Wrote(i) =>
            \A k \in DOMAIN DepsOf(FileBefore(i)) :
                StaysBelow(DepsOf(FileBefore(i))[k]) =>
                    DepsOf(FileAfter(i))[k].path = DepsOf(FileBefore(i))[k].path

\* C7: the rewrite changes nothing of the document but develop flags
\* (removed), upward-going paths (replaced) and the dev-dependencies table
\* (removed): the rest of the document, the set of dependencies, every
\* version string, every array, every other field of a table and every path
\* that does not go upward are as before; a manifest of version strings
\* only differs by the dev-dependencies table alone.
C7_OnlyThreeMutations ==
    \A i \in 1..Len(rwHist) :
        Wrote(i) =>
            LET old == FileBefore(i).doc
                new == FileAfter(i).doc
            IN /\ new.name = old.name
               /\ DOMAIN new.dependencies = DOMAIN old.dependencies
               /\ new.devDependencies = NoValue
               /\ \A k \in DOMAIN old.dependencies :
                    LET a == old.dependencies[k]
                        b == new.dependencies[k]
                    IN IF ~IsTable(a) THEN b = a
                       ELSE /\ IsTable(b)
                            /\ b.python = a.python
                            /\ b.develop \in {a.develop, "absent"}
                            /\ (b.path # a.path => GoesUpward(a))
               /\ (\A k \in DOMAIN old.dependencies :
                        old.dependencies[k].kind = "string")
                    => new = [old EXCEPT !.devDependencies = NoValue]

(***************************************************************************)
(* Claims about the pipeline, checked under Spec.                          *)
(***************************************************************************)
Ended(r) == pc[r] \in {"resolved", "rejected"}

BuildStarted(r) == pc[r] = "docker"

\* The manifests in the staging directory of a run.
Staged(r) == {d \in ProjectDirSet : staging[r].files[d] # AbsentFile}

\* Whether the run has called the rewriter on the manifest in dir after
\* the locate step, with the staging directory as projectRootPath, and the
\* call wrote the manifest.
RewrittenWithRoot(r, dir) ==
    \E i \in 1..Len(rewrites[r]) :
        rewrites[r][i] = RewriteRecord(dir, bindPath(r), TRUE, "wrote")

\* Whether a path declared in the manifest of dir leads above the staging
\* root.
ClimbsAboveRoot(dir, p) ==
    LET n == NormalizeSegs(FALSE, <<>>, dir \o p.segs)
    IN n # <<>> /\ n[1] = ".."

\* C1: once a run with the gate enabled has ended, resolved or rejected,
\* its staging directory is gone.
C1_StagingRemovedAtEnd ==
    \A r \in Runs : (enabled[r] /\ Ended(r)) => ~staging[r].exists

\* C2 as claimed: when the container build is started, every manifest in
\* the staging directory has been rewritten with the staging directory as
\* projectRootPath, no table-valued dependency has a path with a
\* parent-directory segment, and every path that had one is under
\* /var/task.
C2_AllPathsUnderMount ==
    \A r \in Runs :
        BuildStarted(r) =>
            \A d \in Staged(r) :
                /\ RewrittenWithRoot(r, d)
                /\ \A k \in DOMAIN DepsOf(staging[r].files[d]) :
                    LET dep == DepsOf(staging[r].files[d])[k] IN
                    (IsTable(dep) /\ dep.path # NoValue) =>
                        /\ ~HasParentSegment(dep.path)
                        /\ GoesUpward(DepsOf(srcTree[d])[k]) =>
                                IsPrefix(VarTask, dep.path)

\* C2 as amended: when the container build is started, every manifest in
\* the staging directory has been rewritten with the staging directory as
\* projectRootPath, no table-valued dependency has a path with a
\* parent-directory segment, and every path that had one is absolute, and
\* is under /var/task unless the declared path leads above the staging root.
C2_RewrittenAtBuild ==
    \A r \in Runs :
        BuildStarted(r) =>
            \A d \in Staged(r) :
                /\ RewrittenWithRoot(r, d)
                /\ \A k \in DOMAIN DepsOf(staging[r].files[d]) :
                    LET dep == DepsOf(staging[r].files[d])[k]
                        old == DepsOf(srcTree[d])[k]
                    IN (IsTable(dep) /\ dep.path # NoValue) =>
                        /\ ~HasParentSegment(dep.path)
                        /\ GoesUpward(old) =>
                            /\ dep.path.abs
                            /\ ~ClimbsAboveRoot(d, old.path) =>
                                    IsPrefix(VarTask, dep.path)

C2_Witness ==
    \E r \in Runs :
        /\ BuildStarted(r)
        /\ srcTree[<<"libs", "shared">>]
                = TomlFile(TRUE, WithShared(UpTo(<<"..", "other">>)))
        /\ DepsOf(staging[r].files[<<"libs", "shared">>]).shared.path
                = Path(TRUE, <<"var", "task", "libs", "other">>)
        /\ DepsOf(staging[r].files[<<"web">>]).shared.path
                = Path(TRUE, <<"var", "task", "libs", "shared">>)

\* The steps whose external process is started at most once in a run.
ExecSteps == {"stage", "locate", "build", "collect"}

Count(seq, x) == Cardinality({i \in 1..Len(seq) : seq[i] = x})

\* C8: when a step of a run fails, the run is rejected, the failed step is
\* the last one the run has started, no external process has been started
\* twice, nothing of a later step has happened, and the run stays as it is:
\* rejected, with no further step started.
C8_FailureAborts ==
    /\ [](\A r \in Runs :
            /\ \A x \in ExecSteps : Count(started[r], x) <= 1
            /\ failed[r] # "none" =>
                /\ pc[r] = "rejected"
                /\ started[r] # <<>>
                /\ started[r][Len(started[r])] = failed[r]
                /\ failed[r] \in {"stage", "rewrite", "locate"} =>
                        staging[r].sitePackages = {}
                /\ "cleanup" \notin {started[r][i] : i \in 1..Len(started[r])})
    /\ [][\A r \in Runs :
            pc[r] = "rejected" =>
                /\ pc'[r] = "rejected"
                /\ started'[r] = started[r]
                /\ staging'[r] = staging[r]]_vars

C8_Witness ==
    \E r \in Runs :
        /\ failed[r] = "build"
        /\ pc[r] = "rejected"
        /\ started[r] = <<"stage", "rewrite", "locate", "rewrite", "build">>

IsSeqPrefix(a, b) == Len(a) <= Len(b) /\ SubSeq(b, 1, Len(a)) = a

\* The rewriter calls of a run on the manifest in dir.
CallsOn(r, dir) == {i \in 1..Len(rewrites[r]) : rewrites[r][i].dir = dir}

\* C9 as claimed: the steps of a run come in the order stage, locate,
\* rewrite, build, collect, cleanup; every rewriter call comes after the
\* locate step and no manifest is rewritten twice; the build starts only
\* when every located manifest has been rewritten.
C9_RewriteOnceAfterLocate ==
    \A r \in Runs :
        /\ IsSeqPrefix(started[r],
                <<"stage", "locate", "rewrite", "build", "collect", "cleanup">>)
        /\ \A i \in 1..Len(rewrites[r]) : rewrites[r][i].located
        /\ \A d \in ProjectDirSet : Cardinality(CallsOn(r, d)) <= 1
        /\ BuildStarted(r) => \A d \in Staged(r) : RewrittenWithRoot(r, d)

\* C9 as amended: the steps of a run come in the order stage, rewrite (the
\* root manifest, without projectRootPath, before the locate step), locate,
\* rewrite (every located manifest once, with the staging directory as
\* projectRootPath, and the empty last line of find's output, which is
\* skipped), build, collect, cleanup; the root manifest is so rewritten
\* twice, every other manifest once; the build starts only when every
\* located manifest has been rewritten.
C9_StepOrder ==
    \A r \in Runs :
        LET root == <<apiDirName(service[r])>>
            calls == rewrites[r]
        IN /\ IsSeqPrefix(started[r],
                <<"stage", "rewrite", "locate", "rewrite", "build", "collect",
                  "cleanup">>)
           /\ \A i \in 1..Len(calls) :
                IF i = 1
                THEN calls[i].dir = root /\ calls[i].root = Undefined
                        /\ ~calls[i].located
                ELSE /\ calls[i].located
                     /\ calls[i].root = bindPath(r)
                     /\ Count(started[r], "locate") = 1
                     /\ calls[1].outcome = "wrote"
           /\ \A d \in ProjectDirSet :
                Cardinality(CallsOn(r, d)) <= (IF d = root THEN 2 ELSE 1)
           /\ Cardinality(CallsOn(r, <<>>)) <= 1
           /\ \A i \in CallsOn(r, <<>>) :
                i = Len(calls) /\ calls[i].outcome = "skipped"
           /\ BuildStarted(r) =>
                /\ \A d \in Staged(r) : RewrittenWithRoot(r, d)
                /\ Cardinality(CallsOn(r, root)) = 2
                /\ Len(calls) = Cardinality(Staged(r)) + 2

C9_Witness ==
    \E r \in Runs :
        /\ pc[r] = "resolved"
        /\ started[r] = <<"stage", "rewrite", "locate", "rewrite", "build",
                          "collect", "cleanup">>
        /\ Len(rewrites[r]) = 5
        /\ rewrites[r][1] = RewriteRecord(<<apiDirName(service[r])>>, Undefined,
                                          FALSE, "wrote")
        /\ rewrites[r][3] = RewriteRecord(<<"libs", "shared">>, bindPath(r),
                                          TRUE, "wrote")

Overlap(p, q) == IsPrefix(p, q) \/ IsPrefix(q, p)

Writes(r) == {a.path : a \in {b \in access[r] : b.mode = "write"}}

Touches(r) == {a.path : a \in access[r]}

\* C10 as claimed: no run writes (creates, empties, deletes) a path that
\* another run reads or writes.
C10_PathsExclusive ==
    \A r1, r2 \in Runs :
        r1 # r2 =>
            \A p \in Writes(r1) : \A q \in Touches(r2) : ~Overlap(p, q)

\* C10 as amended: the staging directory of a run is touched by that run
\* alone, and two runs for different service roots write no common path
\* (each has its own collection directory and archive).  Runs for the same
\* service root share both, and the staging copy of every run reads the
\* whole monorepo, the other services' collection directories and archives
\* included.
C10_StagingExclusive ==
    \A r1, r2 \in Runs :
        r1 # r2 =>
            /\ \A q \in Touches(r2) : ~Overlap(bindPath(r1), q)
            /\ service[r1] # service[r2] =>
                \A p \in Writes(r1) : \A q \in Writes(r2) : ~Overlap(p, q)

C10_Witness ==
    \E r1, r2 \in Runs :
        /\ r1 # r2
        /\ service[r1] # service[r2]
        /\ pc[r1] = "zipped"
        /\ pc[r2] = "zipped"
        /\ bindPath(r1) \in Writes(r1)
        /\ bindPath(r2) \in Writes(r2)
        /\ archivePath(service[r1]) \in Writes(r1)
        /\ archivePath(service[r2]) \in Writes(r2)


\* The option is off for the run.
GateOff(r) == ~enabled[r]

\* C11: when the gate is off, each of the three entrypoints returns at once:
\* the run touches no path and starts no process, and each of its steps
\* leaves the staging directories, the collection directories and the
\* archives (and the logs of steps, failures and rewrites) as they were.
C11_GateOffNoOp ==
    /\ [](\A r \in Runs : GateOff(r) =>
            /\ access[r] = {}
            /\ started[r] = <<>>
            /\ rewrites[r] = <<>>
            /\ failed[r] = "none"
            /\ staging[r] \in {NoDirectory, LeftoverDirectory}
            /\ pc[r] \in {"start", "noop", "noop-zip", "noop-add"})
    /\ [][\A r \in Runs : (GateOff(r) /\ pc'[r] # pc[r]) =>
            UNCHANGED <<staging, collection, archive, started, failed,
                        rewrites, access>>]_vars

C11_Witness ==
    \E r \in Runs :
        /\ GateOff(r)
        /\ pc[r] = "noop-add"
        /\ service[r] = "api"
        /\ collection["api"] = {"stale"}
        /\ archive["api"] = {"old"}

\* The names the staged mirror must not hold: version-control metadata, the
\* lock file, virtual environments and the package cache of the node tools.
ExcludedNames == {".git", "poetry.lock", ".venv", "node_modules"}

Threw(r) == {i \in 1..Len(rewrites[r]) : rewrites[r][i].outcome = "threw"}

\* C13: when a rewriter call of a run cannot complete (the file cannot be
\* read or parsed, or has no dependencies table), the manifest it was called
\* on is what it was when staged, comments included, and the run is
\* rejected at that call: no later call, no build, no collection.
C13_ThrowLeavesFile ==
    \A r \in Runs : \A i \in Threw(r) :
        /\ i = Len(rewrites[r])
        /\ staging[r].files[rewrites[r][i].dir] = srcTree[rewrites[r][i].dir]
        /\ CannotComplete(srcTree[rewrites[r][i].dir])
        /\ pc[r] = "rejected"
        /\ failed[r] = "rewrite"
        /\ started[r][Len(started[r])] = "rewrite"
        /\ \A k \in 1..Len(started[r]) :
                started[r][k] \notin {"build", "collect", "cleanup"}
        /\ staging[r].sitePackages = {}

C13_Witness ==
    \E r \in Runs :
        /\ Threw(r) # {}
        /\ rewrites[r][Len(rewrites[r])].dir = <<"libs", "shared">>
        /\ staging[r].files[<<"libs", "shared">>]
                = TomlFile(TRUE, Document(NoValue, NoValue))
        /\ rewrites[r][1].outcome = "wrote"

\* C14: a rewriter call whose manifest path is undefined or has length 0 or
\* 1 returns without throwing and leaves the file as it is, whatever the
\* file: also one whose reading or parsing would throw.
C14_ShortPathSkipped ==
    (rwPath = Undefined \/ StrLength(rwPath) <= 1) =>
        \A i \in 1..Len(rwHist) :
            /\ rwHist[i].outcome = "skipped"
            /\ FileAfter(i) = rwOrig

C14_Witness ==
    /\ rwPath = Path(FALSE, <<".">>)
    /\ rwOrig = InvalidFile
    /\ Len(rwHist) = 2
    /\ rwHist[2].outcome = "skipped"
    /\ rwCalls[2] = StagingRoot

\* find ended without error and listed nothing: the run went past the
\* locate step with no rewriter call made after it.
ZeroLocated(r) ==
    /\ Count(started[r], "locate") = 1
    /\ pc[r] # "find"
    /\ failed[r] # "locate"
    /\ \A i \in 1..Len(rewrites[r]) : ~rewrites[r][i].located

\* C15: when find lists no manifest, the run does not fail because of it:
\* no rewriter call is made, nothing is thrown, and the container build is
\* the next step started.
C15_ZeroLocatedBuilds ==
    \A r \in Runs : ZeroLocated(r) =>
        /\ failed[r] # "rewrite"
        /\ Len(started[r]) >= 4
        /\ SubSeq(started[r], 1, 4) = <<"stage", "rewrite", "locate", "build">>
        /\ pc[r] = "rejected" => failed[r] \in {"build", "collect"}

C15_Witness ==
    \E r \in Runs :
        /\ ZeroLocated(r)
        /\ pc[r] = "docker"
        /\ Len(rewrites[r]) = 1
        /\ staging[r].files[<<"web">>] = srcTree[<<"web">>]

\* The run is the only one that works on its service root.
Alone(r) == \A q \in Runs \ {r} : service[q] # service[r] \/ ~enabled[q]

\* The packages of the run's build that the collecting rsync copies.
Filtered(r) ==
    staging[r].sitePackages
        \ {"pip", "setuptools", "wheel", "__pycache__", "pkg_resources"}

\* The collecting rsync of the run ends without error.
Collects(r) == pc[r] = "collect" /\ pc'[r] = "resolved"

\* C16 as stated: after the collection step of a successful run the
\* collection directory holds the filtered packages of the run's build and
\* nothing else, whatever was written into it since it was emptied.
C16_OnlyOwnPackages ==
    [][\A r \in Runs : Collects(r) =>
            collection'[service[r]] = Filtered(r)]_vars

\* C16, amended: the collection directory is emptied when the run starts,
\* so nothing it held before is there after the collection step, which adds
\* the filtered packages of the run's build to what the directory holds at
\* that moment; it holds nothing else when no other run works on the same
\* service root.
C16_EmptiedAtStart ==
    /\ [](\A r \in Runs : (enabled[r] /\ pc[r] # "start") =>
            collection[service[r]] \cap {"stale"} = {})
    /\ [][\A r \in Runs : Collects(r) =>
            /\ collection'[service[r]] = collection[service[r]] \cup Filtered(r)
            /\ Alone(r) => collection'[service[r]] = Filtered(r)]_vars

C16_Witness ==
    \E r \in Runs :
        /\ pc[r] = "resolved"
        /\ service[r] = "api"
        /\ Alone(r)
        /\ collection["api"] = {"requests", "shared", "urllib3", ".libs"}


\* C17: when zipMonoRepoDeps has ended without error for a run that is the
\* only one on its service root, the members of the archive are the entries
\* of the collection directory, all of them and nothing else, whatever
\* archive was at the path before.
C17_ArchiveIsCollection ==
    \A r \in Runs : (pc[r] = "zipped" /\ Alone(r)) =>
        /\ archive[service[r]] = collection[service[r]]
        /\ archive[service[r]] \cap {"old", "<no archive>"} = {}

\* The members zipMonoRepoDeps gives the archive of a service.
MembersAfterFull(s) == {e \in collection[s] : e # ".libs"}

\* C18: when addDepsToZipFile follows zipMonoRepoDeps for a run that is the
\* only one on its service root (so the collection directory is as it was),
\* the archive has the members zipMonoRepoDeps gave it, while zip -ur runs
\* and after it has ended; and no step of addDepsToZipFile, in any run,
\* removes the archive or a member of it.
C18_UpdateKeepsMembers ==
    /\ [](\A r \in Runs :
            (Alone(r) /\ pc[r] \in {"zipped", "zip-update", "added",
                                    "add-rejected"}) =>
                /\ archive[service[r]] # NoArchive
                /\ archive[service[r]] = MembersAfterFull(service[r]))
    /\ [][\A r \in Runs :
            (pc[r] \in {"zipped", "zip-update"} /\ pc'[r] # pc[r]
                    /\ archive[service[r]] # NoArchive) =>
                archive[service[r]] \subseteq archive'[service[r]]]_vars

C18_Witness ==
    \E r \in Runs :
        /\ pc[r] = "add-rejected"
        /\ Alone(r)
        /\ service[r] = "api"
        /\ archive["api"] = {"requests", "shared"}

\* The path of the dependency on the shared library in a manifest.
SharedPath(file) == DepsOf(file).shared.path

==========================================================================
